---------------------------- MODULE Spec2Model ----------------------------
(***************************************************************************)
(* Model of the xmcs crate: the tail-subsequence oracle (substr.rs), the   *)
(* DAG data model and extraction (dag.rs), the pairwise builder            *)
(* (dag/xmcs2.rs), the k-ary builder (dag/xmcsk.rs) and the reference      *)
(* hash-set implementation (set.rs).                                       *)
(*                                                                         *)
(* Conventions.  A Rust slice is a TLA+ sequence; Rust index i is TLA+     *)
(* index i + 1.  Option<usize> is an integer: None is -1, Some(i) is i.    *)
(* A panic (failed assert!, bounds check, arithmetic overflow) is carried  *)
(* as a `panic` flag in the value an operation returns.                    *)
(***************************************************************************)
EXTENDS Integers, Sequences, FiniteSets, TLC

VARIABLES op, len, seqs, dag, lcs, sub, query

vars == <<op, len, seqs, dag, lcs, sub, query>>

---------------------------------------------------------------------------
(* Bounds of the model *)

\* longest input sequence handed to the builders
MaxLen == 4
\* longest input sequence handed to SubString::new
MaxLenO == 3
\* largest minimum length l a caller passes
MaxL == 4
\* largest band width passed to SubString::new
MaxDelta == 3
\* most sequences folded by xmcsk
MaxK == 3

Alphabet == {"A", "B"}

RECURSIVE Words(_)
Words(n) ==
    IF n = 0 THEN {<<>>}
    ELSE Words(n - 1) \cup
         {Append(w, a) : w \in {v \in Words(n - 1) : Len(v) = n - 1}, a \in Alphabet}

Max(a, b) == IF a > b THEN a ELSE b
Min(a, b) == IF a < b THEN a ELSE b

\* s[k..] for a 0-based k
Tail0(s, k) == SubSeq(s, k + 1, Len(s))

---------------------------------------------------------------------------
(* substr.rs: the tail-subsequence oracle *)

distance(a, b) == IF a > b THEN a - b ELSE b - a

\* row-major indexing of a |s1| x (2 delta + 1) table by (i, j), without
\* the shift of row i by i that keeps the band
index_with_rowmajor(i, j, delta) == j + delta + i * (2 * delta + 1)

index_with(i, j, delta) == j + delta + i * 2 * delta

\* One iteration of the body of the inner loop of SubString::compute: the
\* value stored at (i, j), or a panic when a table read is out of bounds.
\* `&&` and `||` evaluate their left operand (the table read) first.
cell(cells, s1, s2, delta, i, j) ==
    LET d1    == Len(s1)
        d2    == Len(s2)
        end_i == d1 - i - 1
        end_j == d2 - j - 1
        eq    == s1[i + 1] = s2[j + 1]
        diag  == index_with(i + 1, j + 1, delta)
        side  == IF end_i < end_j THEN index_with(i, j + 1, delta)
                                  ELSE index_with(i + 1, j, delta)
        ok(k) == k \in DOMAIN cells
    IN  IF end_i = end_j
        THEN IF end_i = 0
             THEN [panic |-> FALSE, val |-> eq]
             ELSE IF ~ok(diag) THEN [panic |-> TRUE, val |-> FALSE]
                  ELSE [panic |-> FALSE, val |-> cells[diag] /\ eq]
        ELSE IF ~ok(side) THEN [panic |-> TRUE, val |-> FALSE]
             ELSE IF (IF end_i < end_j THEN end_i = 0 ELSE end_j = 0)
                  THEN [panic |-> FALSE, val |-> cells[side] \/ eq]
                  ELSE IF cells[side] THEN [panic |-> FALSE, val |-> TRUE]
                       ELSE IF ~ok(diag) THEN [panic |-> TRUE, val |-> FALSE]
                            ELSE [panic |-> FALSE, val |-> cells[diag] /\ eq]

\* for j in (0..start).rev(), entered at j; `break` once |i - j| > delta
RECURSIVE inner_loop(_, _, _, _, _, _)
inner_loop(res, s1, s2, delta, i, j) ==
    IF res.panic \/ j < 0 \/ distance(i, j) > delta THEN res
    ELSE LET c == cell(res.cells, s1, s2, delta, i, j)
             k == index_with(i, j, delta)
         IN  IF c.panic \/ k \notin DOMAIN res.cells
             THEN [res EXCEPT !.panic = TRUE]
             ELSE inner_loop([res EXCEPT !.cells[k] = c.val],
                             s1, s2, delta, i, j - 1)

\* for i in (0..d1).rev(), entered at i
RECURSIVE outer_loop(_, _, _, _, _)
outer_loop(res, s1, s2, delta, i) ==
    IF res.panic \/ i < 0 THEN res
    ELSE LET start == Min(i + delta + 1, Len(s2))
         IN  outer_loop(inner_loop(res, s1, s2, delta, i, start - 1),
                        s1, s2, delta, i - 1)

\* SubString::compute (and SubString::new, which only forwards to it)
SubString_compute(s1, s2, delta) ==
    LET d1 == Len(s1)
        d2 == Len(s2)
    IN  IF ~(distance(d1, d2) <= delta)
        THEN [panic |-> TRUE, d1 |-> d1, d2 |-> d2, delta |-> delta,
              table |-> <<>>]
        ELSE LET res0 == [cells |-> [k \in 0 .. (d1 * (2 * delta + 1) - 1) |-> FALSE],
                          panic |-> FALSE]
                 res  == outer_loop(res0, s1, s2, delta, d1 - 1)
             IN  [panic |-> res.panic, d1 |-> d1, d2 |-> d2, delta |-> delta,
                  table |-> res.cells]

\* a query that checks the two indices and not the band
is_substring_at_no_band(self, i, j) ==
    IF ~(i <= self.d1) \/ ~(j <= self.d2)
    THEN [panic |-> TRUE, val |-> FALSE]
    ELSE IF i = self.d1 \/ j = self.d2
         THEN [panic |-> FALSE, val |-> TRUE]
         ELSE LET k == index_with(i, j, self.delta)
              IN  IF k \notin DOMAIN self.table
                  THEN [panic |-> TRUE, val |-> FALSE]
                  ELSE [panic |-> FALSE, val |-> self.table[k]]

is_substring_at(self, i, j) ==
    IF ~(i <= self.d1) \/ ~(j <= self.d2) \/ ~(distance(i, j) <= self.delta)
    THEN [panic |-> TRUE, val |-> FALSE]
    ELSE IF i = self.d1 \/ j = self.d2
         THEN [panic |-> FALSE, val |-> TRUE]
         ELSE LET k == index_with(i, j, self.delta)
              IN  IF k \notin DOMAIN self.table
                  THEN [panic |-> TRUE, val |-> FALSE]
                  ELSE [panic |-> FALSE, val |-> self.table[k]]

\* self.d1 - end_i and self.d2 - end_j are usize subtractions
is_substring_from_end(self, end_i, end_j) ==
    IF end_i > self.d1 \/ end_j > self.d2
    THEN [panic |-> TRUE, val |-> FALSE]
    ELSE is_substring_at(self, self.d1 - end_i, self.d2 - end_j)

---------------------------------------------------------------------------
(* dag.rs: nodes, trivial constructors, extraction *)

\* Option<usize>::None
None == -1

EmptyNode == [max_length |-> 0, min_length |-> 0, inner |-> [type |-> "Empty"]]

EndNode(suffix) ==
    [max_length |-> Len(suffix), min_length |-> Len(suffix),
     inner |-> [type |-> "End", suffix |-> suffix]]

\* arena index i of a Vec<Node>
At(nodes, i) == nodes[i + 1]

\* Dag::empty
Dag_empty(l) ==
    [panic |-> FALSE, nodes |-> <<EmptyNode>>, start |-> 0, len |-> l]

\* a singleton Dag that holds the End leaf alone, at index 0
Dag_singleton_leaf_only(l, seq) ==
    [panic |-> FALSE, nodes |-> <<EndNode(seq)>>, start |-> 0, len |-> l]

\* Dag::singleton
Dag_singleton(l, seq) ==
    [panic |-> FALSE, nodes |-> <<EmptyNode, EndNode(seq)>>, start |-> 1, len |-> l]

\* the value of a call that panicked instead of returning a Dag
PanicDag(l) == [panic |-> TRUE, nodes |-> <<>>, start |-> 0, len |-> l]

\* a shift of the child indices that is one too large
with_base_index_off_by_one(node, index) ==
    IF node.inner.type = "Element"
    THEN [node EXCEPT !.inner.child = @ + index + 1]
    ELSE IF node.inner.type = "Split"
         THEN [node EXCEPT !.inner.child1 = @ + index + 1,
                           !.inner.child2 = @ + index + 1]
         ELSE node

\* Node::with_base_index
with_base_index(node, index) ==
    IF node.inner.type = "Element"
    THEN [node EXCEPT !.inner.child = @ + index]
    ELSE IF node.inner.type = "Split"
         THEN [node EXCEPT !.inner.child1 = @ + index, !.inner.child2 = @ + index]
         ELSE node

RECURSIVE extract_lcs_impl(_, _, _)

\* an extraction that treats an End leaf as it treats Empty: the suffix is
\* not appended
extract_lcs_impl_no_suffix(nodes, current, buffer) ==
    LET t == current.inner.type
    IN  IF t = "Empty" \/ t = "End" THEN buffer
        ELSE IF t = "Element"
             THEN extract_lcs_impl(nodes, At(nodes, current.inner.child),
                                   Append(buffer, current.inner.value))
        ELSE LET node1 == At(nodes, current.inner.child1)
                 node2 == At(nodes, current.inner.child2)
             IN  IF node1.max_length > node2.max_length
                 THEN extract_lcs_impl(nodes, node1, buffer)
                 ELSE extract_lcs_impl(nodes, node2, buffer)

\* Dag::extract_lcs_impl; `buffer` is returned instead of being mutated
extract_lcs_impl(nodes, current, buffer) ==
    LET t == current.inner.type
    IN  IF t = "Empty" THEN buffer
        ELSE IF t = "End" THEN buffer \o current.inner.suffix
        ELSE IF t = "Element"
             THEN extract_lcs_impl(nodes, At(nodes, current.inner.child),
                                   Append(buffer, current.inner.value))
        ELSE LET node1 == At(nodes, current.inner.child1)
                 node2 == At(nodes, current.inner.child2)
             IN  IF node1.max_length > node2.max_length
                 THEN extract_lcs_impl(nodes, node1, buffer)
                 ELSE extract_lcs_impl(nodes, node2, buffer)

\* Dag::extract_lcs: Option<Vec<T>>
extract_lcs(self) ==
    LET start == At(self.nodes, self.start)
    IN  IF start.max_length = 0
        THEN [some |-> FALSE, val |-> <<>>]
        ELSE [some |-> TRUE, val |-> extract_lcs_impl(self.nodes, start, <<>>)]

---------------------------------------------------------------------------
(* dag/xmcs2.rs: the pairwise builder.  A Builder is                       *)
(* [nodes, memo, panic]; a method returns [self, ret].                     *)

\* usize::saturating_sub
saturating_sub(a, b) == IF a > b THEN a - b ELSE 0

x2_insert_node_at(self, position, node) ==
    LET index == Len(self.nodes)
    IN  [self |-> [self EXCEPT !.nodes = Append(@, node),
                               !.memo = (position :> index) @@ @],
         ret  |-> index]

x2_points_to_node(self, position, index) ==
    IF ~(index < Len(self.nodes))
    THEN [self |-> [self EXCEPT !.panic = TRUE], ret |-> None]
    ELSE [self |-> [self EXCEPT !.memo = (position :> index) @@ @], ret |-> index]

\* an empty result recorded as an Empty node pushed into the arena
x2_insert_empty_at_as_node(self, position) ==
    x2_insert_node_at(self, position, EmptyNode)

x2_insert_empty_at(self, position) ==
    [self |-> [self EXCEPT !.memo = (position :> None) @@ @], ret |-> None]

\* an End leaf that is dropped when the suffix it holds is empty
x2_compute_subseq_node_nonempty(self, s1, l1, s2, l2, position) ==
    LET suffix == IF l1 < l2 THEN s1 ELSE s2
        length == IF l1 < l2 THEN l1 ELSE l2
        node   == [max_length |-> length, min_length |-> length,
                   inner |-> [type |-> "End", suffix |-> suffix]]
    IN  IF length = 0 THEN x2_insert_empty_at(self, position)
        ELSE x2_insert_node_at(self, position, node)

x2_compute_subseq_node(self, s1, l1, s2, l2, position) ==
    LET suffix == IF l1 < l2 THEN s1 ELSE s2
        length == IF l1 < l2 THEN l1 ELSE l2
        node   == [max_length |-> length, min_length |-> length,
                   inner |-> [type |-> "End", suffix |-> suffix]]
    IN  x2_insert_node_at(self, position, node)

\* an Element node that takes its child's max_length without adding one
x2_compute_common_element_node_len(self, element, index, position) ==
    IF index = None THEN x2_insert_empty_at(self, position)
    ELSE LET node == At(self.nodes, index)
         IN  x2_insert_node_at(self, position,
                 [max_length |-> node.max_length,
                  min_length |-> node.min_length + 1,
                  inner |-> [type |-> "Element", value |-> element,
                             child |-> index]])

\* an Element node of the pairwise builder that takes its child's
\* min_length without adding one
x2_compute_common_element_node_min(self, element, index, position) ==
    IF index = None THEN x2_insert_empty_at(self, position)
    ELSE LET node == At(self.nodes, index)
         IN  x2_insert_node_at(self, position,
                 [max_length |-> node.max_length + 1,
                  min_length |-> node.min_length,
                  inner |-> [type |-> "Element", value |-> element,
                             child |-> index]])

x2_compute_common_element_node(self, element, index, position) ==
    IF index = None THEN x2_insert_empty_at(self, position)
    ELSE IF ~(index < Len(self.nodes))
         THEN [self |-> [self EXCEPT !.panic = TRUE], ret |-> None]
         ELSE LET node == At(self.nodes, index)
              IN  x2_insert_node_at(self, position,
                      [max_length |-> node.max_length + 1,
                       min_length |-> node.min_length + 1,
                       inner |-> [type |-> "Element", value |-> element,
                                  child |-> index]])

\* a split that keeps only its first child when both are present
x2_compute_split_node_first(self, index1, index2, position) ==
    IF index1 = None /\ index2 = None THEN x2_insert_empty_at(self, position)
    ELSE IF index1 = None THEN x2_points_to_node(self, position, index2)
    ELSE x2_points_to_node(self, position, index1)

\* a split that yields nothing unless both children are present
x2_compute_split_node_both(self, index1, index2, position) ==
    IF index1 = None \/ index2 = None THEN x2_insert_empty_at(self, position)
    ELSE LET node1 == At(self.nodes, index1)
             node2 == At(self.nodes, index2)
         IN  x2_insert_node_at(self, position,
                 [max_length |-> Max(node1.max_length, node2.max_length),
                  min_length |-> Min(node1.min_length, node2.min_length),
                  inner |-> [type |-> "Split", child1 |-> index1,
                             child2 |-> index2]])

x2_compute_split_node(self, index1, index2, position) ==
    IF index1 = None /\ index2 = None THEN x2_insert_empty_at(self, position)
    ELSE IF index1 = None THEN x2_points_to_node(self, position, index2)
    ELSE IF index2 = None THEN x2_points_to_node(self, position, index1)
    ELSE IF ~(index1 < Len(self.nodes)) \/ ~(index2 < Len(self.nodes))
         THEN [self |-> [self EXCEPT !.panic = TRUE], ret |-> None]
         ELSE LET node1 == At(self.nodes, index1)
                  node2 == At(self.nodes, index2)
              IN  x2_insert_node_at(self, position,
                      [max_length |-> Max(node1.max_length, node2.max_length),
                       min_length |-> Min(node1.min_length, node2.min_length),
                       inner |-> [type |-> "Split", child1 |-> index1,
                                  child2 |-> index2]])

\* Builder::compute of xmcs2.rs.  A builder that has panicked stays so and
\* every later step returns at once.
RECURSIVE x2_compute(_, _, _, _, _)
x2_compute(self, l, s1, s2, substr) ==
    LET l1  == Len(s1)
        l2  == Len(s2)
        pos == <<l, l1, l2>>
    IN  IF self.panic THEN [self |-> self, ret |-> None]
        ELSE IF pos \in DOMAIN self.memo
             THEN [self |-> self, ret |-> self.memo[pos]]
        ELSE IF l > l1 \/ l > l2 THEN x2_insert_empty_at(self, pos)
        ELSE LET q == is_substring_from_end(substr, l1, l2)
             IN  IF q.panic THEN [self |-> [self EXCEPT !.panic = TRUE], ret |-> None]
                 ELSE IF q.val THEN x2_compute_subseq_node(self, s1, l1, s2, l2, pos)
                 ELSE IF l1 = 0 \/ l2 = 0   \* s1[0] or s2[0] out of bounds
                      THEN [self |-> [self EXCEPT !.panic = TRUE], ret |-> None]
                 ELSE IF s1[1] = s2[1]
                      THEN LET r == x2_compute(self, saturating_sub(l, 1),
                                               Tail(s1), Tail(s2), substr)
                           IN  x2_compute_common_element_node(r.self, s1[1], r.ret, pos)
                      ELSE LET r1 == x2_compute(self, l, Tail(s1), s2, substr)
                               r2 == x2_compute(r1.self, l, s1, Tail(s2), substr)
                           IN  x2_compute_split_node(r2.self, r1.ret, r2.ret, pos)

\* a build whose band is one narrower than max(|s1|, |s2|) - l
build_raw_narrow_band(oc, l, s1, s2) ==
    LET n  == Max(Len(s1), Len(s2))
        b0 == [nodes |-> <<>>, memo |-> <<>>, panic |-> FALSE]
    IN  IF l > n
        THEN [nodes |-> <<>>, start |-> None, panic |-> TRUE]
        ELSE LET subseq == SubString_compute(s1, s2, saturating_sub(n - l, 1))
             IN  IF subseq.panic
                 THEN [nodes |-> <<>>, start |-> None, panic |-> TRUE]
                 ELSE LET r == x2_compute(b0, l, s1, s2, subseq)
                      IN  [nodes |-> r.self.nodes, start |-> r.ret,
                           panic |-> r.self.panic]

\* Builder::build_raw (and xmcs2_raw, which only forwards to it).
\* `n - len` is a usize subtraction: with overflow checks (oc) it panics
\* when len > n; without them delta wraps to 2^64 - (len - n), the
\* distance assertion passes, and the table size d1 * (2 * delta + 1)
\* wraps to 2^64 - d1 * (2 * (len - n) - 1): zero when d1 = 0, beyond
\* isize::MAX (Vec::resize panics with a capacity overflow) otherwise.
build_raw(oc, l, s1, s2) ==
    LET n  == Max(Len(s1), Len(s2))
        b0 == [nodes |-> <<>>, memo |-> <<>>, panic |-> FALSE]
    IN  IF l > n
        THEN IF oc \/ Len(s1) > 0
             THEN [nodes |-> <<>>, start |-> None, panic |-> TRUE]
             ELSE LET subseq == [panic |-> FALSE, d1 |-> 0, d2 |-> Len(s2),
                                 delta |-> n, table |-> <<>>]
                      r == x2_compute(b0, l, s1, s2, subseq)
                  IN  [nodes |-> r.self.nodes, start |-> r.ret,
                       panic |-> r.self.panic]
        ELSE LET subseq == SubString_compute(s1, s2, n - l)
             IN  IF subseq.panic
                 THEN [nodes |-> <<>>, start |-> None, panic |-> TRUE]
                 ELSE LET r == x2_compute(b0, l, s1, s2, subseq)
                      IN  [nodes |-> r.self.nodes, start |-> r.ret,
                           panic |-> r.self.panic]

\* Builder::build (and the public xmcs2, which only forwards to it)
xmcs2(oc, l, s1, s2) ==
    LET raw == build_raw(oc, l, s1, s2)
    IN  IF raw.panic THEN PanicDag(l)
        ELSE IF raw.start = None
             THEN IF Len(raw.nodes) # 0 THEN PanicDag(l)   \* assert_eq!(0, graph.len())
                  ELSE [panic |-> FALSE, nodes |-> <<EmptyNode>>, start |-> 0, len |-> l]
             ELSE [panic |-> FALSE, nodes |-> raw.nodes, start |-> raw.start, len |-> l]

---------------------------------------------------------------------------
(* dag/xmcsk.rs: the k-ary builder.  A Builder is                          *)
(* [nodes, memo, base_graph, panic]; a method returns [self, ret].         *)

xk_insert_node_at(self, position, node) ==
    LET index == Len(self.nodes)
    IN  [self |-> [self EXCEPT !.nodes = Append(@, node),
                               !.memo = (position :> index) @@ @],
         ret  |-> index]

xk_points_to_node(self, position, index) ==
    IF ~(index < Len(self.nodes))
    THEN [self |-> [self EXCEPT !.panic = TRUE], ret |-> None]
    ELSE [self |-> [self EXCEPT !.memo = (position :> index) @@ @], ret |-> index]

xk_insert_empty_at(self, position) ==
    [self |-> [self EXCEPT !.memo = (position :> None) @@ @], ret |-> None]

\* Builder::insert_subgraph_at: the Some arm appends the shifted nodes and
\* returns the shifted start; it does not touch the memo table.
insert_subgraph_at(self, position, other, start) ==
    IF start = None THEN xk_insert_empty_at(self, position)
    ELSE LET index == Len(self.nodes)
             nodes == [k \in 1 .. Len(other) |-> with_base_index(other[k], index)]
         IN  [self |-> [self EXCEPT !.nodes = @ \o nodes], ret |-> start + index]

\* Node::is_split_with_child is called in xmcsk.rs and defined in no file
\* of the repository; its name and the comment at its call site give it.
is_split_with_child(node, idx) ==
    /\ node.inner.type = "Split"
    /\ (node.inner.child1 = idx \/ node.inner.child2 = idx)

\* a split-combine rule whose collapse reuses the child instead of the
\* Split that holds it
xk_compute_split_node_reuse_child(self, index1, index2, position) ==
    IF index1 = None /\ index2 = None THEN xk_insert_empty_at(self, position)
    ELSE IF index2 = None THEN xk_points_to_node(self, position, index1)
    ELSE IF index1 = None THEN xk_points_to_node(self, position, index2)
    ELSE IF index1 = index2 THEN xk_points_to_node(self, position, index1)
    ELSE LET node1 == At(self.nodes, index1)
             node2 == At(self.nodes, index2)
         IN  IF is_split_with_child(node1, index2)
             THEN xk_points_to_node(self, position, index2)
             ELSE IF is_split_with_child(node2, index1)
             THEN xk_points_to_node(self, position, index1)
             ELSE xk_insert_node_at(self, position,
                      [max_length |-> Max(node1.max_length, node2.max_length),
                       min_length |-> Min(node1.min_length, node2.min_length),
                       inner |-> [type |-> "Split", child1 |-> index1,
                                  child2 |-> index2]])

xk_compute_split_node(self, index1, index2, position) ==
    IF index1 = None /\ index2 = None THEN xk_insert_empty_at(self, position)
    ELSE IF index2 = None THEN xk_points_to_node(self, position, index1)
    ELSE IF index1 = None THEN xk_points_to_node(self, position, index2)
    ELSE IF index1 = index2 THEN xk_points_to_node(self, position, index1)
    ELSE IF ~(index1 < Len(self.nodes)) \/ ~(index2 < Len(self.nodes))
         THEN [self |-> [self EXCEPT !.panic = TRUE], ret |-> None]
    ELSE LET node1 == At(self.nodes, index1)
             node2 == At(self.nodes, index2)
         IN  IF is_split_with_child(node1, index2)
             THEN xk_points_to_node(self, position, index1)
             ELSE IF is_split_with_child(node2, index1)
             THEN xk_points_to_node(self, position, index2)
             ELSE xk_insert_node_at(self, position,
                      [max_length |-> Max(node1.max_length, node2.max_length),
                       min_length |-> Min(node1.min_length, node2.min_length),
                       inner |-> [type |-> "Split", child1 |-> index1,
                                  child2 |-> index2]])

\* an Element node that takes its child's min_length without adding one
xk_compute_common_element_node_min(self, index, element, position) ==
    IF index = None THEN xk_insert_empty_at(self, position)
    ELSE LET node == At(self.nodes, index)
         IN  xk_insert_node_at(self, position,
                 [max_length |-> node.max_length + 1,
                  min_length |-> node.min_length,
                  inner |-> [type |-> "Element", value |-> element,
                             child |-> index]])

xk_compute_common_element_node(self, index, element, position) ==
    IF index = None THEN xk_insert_empty_at(self, position)
    ELSE IF ~(index < Len(self.nodes))
         THEN [self |-> [self EXCEPT !.panic = TRUE], ret |-> None]
         ELSE LET node == At(self.nodes, index)
              IN  xk_insert_node_at(self, position,
                      [max_length |-> node.max_length + 1,
                       min_length |-> node.min_length + 1,
                       inner |-> [type |-> "Element", value |-> element,
                                  child |-> index]])

\* the key of the memo table for a visit of base-graph node `current`
xk_position(self, l, current, seq) ==
    <<l, At(self.base_graph, current).max_length, Len(seq)>>

\* Builder::compute of xmcsk.rs
RECURSIVE xk_compute(_, _, _, _, _)
xk_compute(self, oc, l, current, seq) ==
    IF self.panic THEN [self |-> self, ret |-> None]
    ELSE IF ~(current < Len(self.base_graph))
    THEN [self |-> [self EXCEPT !.panic = TRUE], ret |-> None]
    ELSE
    LET node == At(self.base_graph, current)
        l1   == node.max_length
        l2   == Len(seq)
        pos  == xk_position(self, l, current, seq)
        t    == node.inner.type
    IN  IF pos \in DOMAIN self.memo
        THEN [self |-> self, ret |-> self.memo[pos]]
        ELSE IF l > l1 \/ l > l2 THEN xk_insert_empty_at(self, pos)
        ELSE IF t = "Empty" THEN xk_insert_empty_at(self, pos)
        ELSE IF t = "End"
             THEN LET raw == build_raw(oc, l, node.inner.suffix, seq)
                  IN  IF raw.panic
                      THEN [self |-> [self EXCEPT !.panic = TRUE], ret |-> None]
                      ELSE insert_subgraph_at(self, pos, raw.nodes, raw.start)
        ELSE IF t = "Split"
             THEN LET r1 == xk_compute(self, oc, l, node.inner.child1, seq)
                      r2 == xk_compute(r1.self, oc, l, node.inner.child2, seq)
                  IN  xk_compute_split_node(r2.self, r1.ret, r2.ret, pos)
        ELSE IF l2 = 0 /\ l = 0
             THEN xk_insert_node_at(self, pos,
                      [max_length |-> 0, min_length |-> 0,
                       inner |-> [type |-> "End", suffix |-> seq]])
        ELSE IF l2 = 0 THEN xk_insert_empty_at(self, pos)
        ELSE IF node.inner.value = seq[1]
             THEN LET r == xk_compute(self, oc, saturating_sub(l, 1),
                                      node.inner.child, Tail(seq))
                  IN  xk_compute_common_element_node(r.self, r.ret,
                                                     node.inner.value, pos)
             ELSE LET r1 == xk_compute(self, oc, l, current, Tail(seq))
                      r2 == xk_compute(r1.self, oc, l, node.inner.child, seq)
                  IN  xk_compute_split_node(r2.self, r1.ret, r2.ret, pos)

\* Builder::add_sequence
add_sequence(oc, xmcs, sequence) ==
    LET res0 == [nodes |-> <<>>, memo |-> <<>>, base_graph |-> xmcs.nodes,
                 panic |-> FALSE]
        r    == xk_compute(res0, oc, xmcs.len, xmcs.start, sequence)
    IN  IF r.self.panic THEN PanicDag(xmcs.len)
        ELSE IF r.ret = None
             THEN IF Len(r.self.nodes) # 0 THEN PanicDag(xmcs.len)
                  ELSE [panic |-> FALSE, nodes |-> <<EmptyNode>>, start |-> 0,
                        len |-> xmcs.len]
             ELSE [panic |-> FALSE, nodes |-> r.self.nodes, start |-> r.ret,
                   len |-> xmcs.len]

\* the public xmcsk of dag/xmcsk.rs; a panic of an inner fold unwinds
RECURSIVE xmcsk(_, _, _)
xmcsk(oc, l, sequences) ==
    IF Len(sequences) = 0 THEN Dag_empty(l)
    ELSE IF Len(sequences) = 1 THEN Dag_singleton(l, sequences[1])
    ELSE LET graph == xmcsk(oc, l, SubSeq(sequences, 1, Len(sequences) - 1))
         IN  IF graph.panic THEN graph
             ELSE add_sequence(oc, graph, sequences[Len(sequences)])

---------------------------------------------------------------------------
(* set.rs: the reference implementation; a call returns [panic, set] *)

RECURSIVE xmcs2_impl(_, _, _, _)
xmcs2_impl(l, s1, s2, substr) ==
    IF l > Len(s1) \/ l > Len(s2) \/ Len(s1) = 0 \/ Len(s2) = 0
    THEN [panic |-> FALSE, set |-> {}]
    ELSE LET q == is_substring_from_end(substr, Len(s1), Len(s2))
         IN  IF q.panic THEN [panic |-> TRUE, set |-> {}]
             ELSE IF q.val
                  THEN [panic |-> FALSE,
                        set |-> {IF Len(s1) < Len(s2) THEN s1 ELSE s2}]
             ELSE IF s1[1] = s2[1]
                  THEN LET res == xmcs2_impl(saturating_sub(l, 1), Tail(s1),
                                             Tail(s2), substr)
                       IN  [panic |-> res.panic,
                            set |-> {<<s1[1]>> \o s : s \in res.set}]
                  ELSE LET res1 == xmcs2_impl(l, Tail(s1), s2, substr)
                           res2 == xmcs2_impl(l, s1, Tail(s2), substr)
                       IN  [panic |-> res1.panic \/ res2.panic,
                            set |-> res1.set \cup res2.set]

\* set::xmcs2; `n - len` wraps or panics as in build_raw
set_xmcs2(oc, l, s1, s2) ==
    LET n == Max(Len(s1), Len(s2))
    IN  IF l > n
        THEN IF oc \/ Len(s1) > 0 THEN [panic |-> TRUE, set |-> {}]
             ELSE xmcs2_impl(l, s1, s2, [panic |-> FALSE, d1 |-> 0, d2 |-> Len(s2),
                                         delta |-> n, table |-> <<>>])
        ELSE LET substring == SubString_compute(s1, s2, n - l)
             IN  IF substring.panic THEN [panic |-> TRUE, set |-> {}]
                 ELSE xmcs2_impl(l, s1, s2, substring)

\* set::xmcsk
RECURSIVE set_xmcsk(_, _, _)
set_xmcsk(oc, l, sequences) ==
    LET k == Len(sequences)
    IN  IF k = 0 THEN [panic |-> FALSE, set |-> {}]
        ELSE IF k = 1
        THEN [panic |-> FALSE,
              set |-> IF Len(sequences[1]) >= l THEN {sequences[1]} ELSE {}]
        ELSE LET prev == set_xmcsk(oc, l, SubSeq(sequences, 1, k - 1))
                 each == {set_xmcs2(oc, l, s, sequences[k]) : s \in prev.set}
             IN  [panic |-> prev.panic \/ (\E r \in each : r.panic),
                  set |-> UNION {r.set : r \in each}]

---------------------------------------------------------------------------
(* Reference definitions used to state the claims *)

RECURSIVE IsSubseq(_, _)
IsSubseq(a, b) ==
    IF Len(a) = 0 THEN TRUE
    ELSE IF Len(a) > Len(b) THEN FALSE
    ELSE IF a[1] = b[1] THEN IsSubseq(Tail(a), Tail(b))
    ELSE IsSubseq(a, Tail(b))

\* every subsequence of s
RECURSIVE Subseqs(_)
Subseqs(s) ==
    IF Len(s) = 0 THEN {<<>>}
    ELSE LET r == Subseqs(Tail(s))
         IN  r \cup {<<s[1]>> \o w : w \in r}

\* the common subsequences of a non-empty list of sequences
CommonSubseqs(ss) ==
    {w \in Subseqs(ss[1]) : \A k \in 1 .. Len(ss) : IsSubseq(w, ss[k])}

\* those that are a proper subsequence of no other common subsequence
MaximalCommonSubseqs(ss) ==
    LET c == CommonSubseqs(ss)
    IN  {w \in c : \A v \in c : IsSubseq(w, v) => v = w}

LcsLength(ss) ==
    LET c == CommonSubseqs(ss)
    IN  CHOOSE n \in 0 .. Len(ss[1]) :
            /\ \E w \in c : Len(w) = n
            /\ \A w \in c : Len(w) <= n

\* the sequences spelled by the paths from node i to an End leaf
RECURSIVE Lang(_, _)
Lang(nodes, i) ==
    LET node == At(nodes, i)
        t    == node.inner.type
    IN  IF t = "Empty" THEN {}
        ELSE IF t = "End" THEN {node.inner.suffix}
        ELSE IF t = "Element"
             THEN {<<node.inner.value>> \o w : w \in Lang(nodes, node.inner.child)}
             ELSE Lang(nodes, node.inner.child1) \cup Lang(nodes, node.inner.child2)

Accepted(d) == Lang(d.nodes, d.start)

---------------------------------------------------------------------------
(* The state machine: a caller of the library.                             *)
(*   op     the last call made                                             *)
(*   len    the minimum length l of the call                               *)
(*   seqs   the input sequences of the calls so far                        *)
(*   dag    the Dag the last builder call returned (panic: it panicked)    *)
(*   lcs    what extract_lcs returned on dag, once called                  *)
(*   sub    the SubString the caller built                                 *)
(*   query  the last query on sub and its answer                           *)

NoDag   == [panic |-> FALSE, nodes |-> <<>>, start |-> 0, len |-> 0]
NoLcs   == [done |-> FALSE, some |-> FALSE, val |-> <<>>]
NoSub   == [panic |-> FALSE, d1 |-> 0, d2 |-> 0, delta |-> 0, table |-> <<>>]
NoQuery == [i |-> 0, j |-> 0, panic |-> FALSE, val |-> FALSE]

HasDag == Len(dag.nodes) > 0 /\ ~dag.panic

Init ==
    /\ op = "init"
    /\ len = 0
    /\ seqs = <<>>
    /\ dag = NoDag
    /\ lcs = NoLcs
    /\ sub = NoSub
    /\ query = NoQuery

\* SubString::new(s1, s2, delta)
New(s1, s2, delta) ==
    /\ op = "init"
    /\ op' = "new"
    /\ seqs' = <<s1, s2>>
    /\ sub' = SubString_compute(s1, s2, delta)
    /\ UNCHANGED <<len, dag, lcs, query>>

\* sub.is_substring_at(i, j)
IsSubstringAt(i, j) ==
    /\ op \in {"new", "query"}
    /\ ~sub.panic
    /\ op' = "query"
    /\ query' = [i |-> i, j |-> j] @@ is_substring_at(sub, i, j)
    /\ UNCHANGED <<len, seqs, dag, lcs, sub>>

\* sub.is_substring_from_end(end_i, end_j); the query recorded is the
\* (i, j) it converts to
IsSubstringFromEnd(end_i, end_j) ==
    /\ op \in {"new", "query"}
    /\ ~sub.panic
    /\ op' = "query"
    /\ query' = [i |-> sub.d1 - end_i, j |-> sub.d2 - end_j]
                    @@ is_substring_from_end(sub, end_i, end_j)
    /\ UNCHANGED <<len, seqs, dag, lcs, sub>>

\* xmcs2(l, s1, s2), built with or without overflow checks
Xmcs2(l, s1, s2) ==
    /\ op = "init"
    /\ op' = "xmcs2"
    /\ len' = l
    /\ seqs' = <<s1, s2>>
    /\ \E oc \in BOOLEAN : dag' = xmcs2(oc, l, s1, s2)
    /\ UNCHANGED <<lcs, sub, query>>

\* xmcsk(l, []) = Dag::empty(l)
Empty(l) ==
    /\ op = "init"
    /\ op' = "xmcsk"
    /\ len' = l
    /\ dag' = Dag_empty(l)
    /\ UNCHANGED <<seqs, lcs, sub, query>>

\* xmcsk(l, [s]) = Dag::singleton(l, s)
Singleton(s) ==
    /\ op = "xmcsk"
    /\ Len(seqs) = 0
    /\ seqs' = <<s>>
    /\ dag' = Dag_singleton(len, s)
    /\ lcs' = NoLcs
    /\ UNCHANGED <<op, len, sub, query>>

\* xmcsk(l, seqs + s) = add_sequence(xmcsk(l, seqs), s)
AddSequence(s) ==
    /\ op = "xmcsk"
    /\ Len(seqs) >= 1
    /\ Len(seqs) < MaxK
    /\ HasDag
    /\ seqs' = Append(seqs, s)
    /\ \E oc \in BOOLEAN : dag' = add_sequence(oc, dag, s)
    /\ lcs' = NoLcs
    /\ UNCHANGED <<op, len, sub, query>>

\* dag.extract_lcs()
ExtractLcs ==
    /\ HasDag
    /\ ~lcs.done
    /\ lcs' = [done |-> TRUE] @@ extract_lcs(dag)
    /\ UNCHANGED <<op, len, seqs, dag, sub, query>>

NextOracle ==
    \/ \E s1, s2 \in Words(MaxLenO), delta \in 0 .. MaxDelta : New(s1, s2, delta)
    \/ \E i, j \in 0 .. MaxLenO + 1 : IsSubstringAt(i, j)
    \/ \E i, j \in 0 .. MaxLenO + 1 : IsSubstringFromEnd(i, j)

Next ==
    \/ \E l \in 0 .. MaxL, s1, s2 \in Words(MaxLen) : Xmcs2(l, s1, s2)
    \/ \E l \in 0 .. MaxL : Empty(l)
    \/ \E s \in Words(MaxLen) : Singleton(s)
    \/ \E s \in Words(MaxLen) : AddSequence(s)
    \/ ExtractLcs

NextPair ==
    \/ \E l \in 0 .. MaxL, s1, s2 \in Words(MaxLen) : Xmcs2(l, s1, s2)
    \/ ExtractLcs


\* the oracle alone
SpecOracle == Init /\ [][NextOracle]_vars

\* the pairwise builder and extraction
SpecPair == Init /\ [][NextPair]_vars

\* the builders and extraction
Spec == Init /\ [][Next]_vars

---------------------------------------------------------------------------
(* The claims *)

\* is the shorter of s1[i..], s2[j..] a subsequence of the longer
\* (for equal lengths: are they equal)
TailIsSubseq(s1, s2, i, j) ==
    LET a == Tail0(s1, i)
        b == Tail0(s2, j)
    IN  IF Len(a) <= Len(b) THEN IsSubseq(a, b) ELSE IsSubseq(b, a)

InBand(i, j) ==
    /\ 0 <= i /\ i <= sub.d1
    /\ 0 <= j /\ j <= sub.d2
    /\ distance(i, j) <= sub.delta

Built == op \in {"xmcs2", "xmcsk"} /\ HasDag

StartNode == At(dag.nodes, dag.start)

IsCommon(w) == \A k \in 1 .. Len(seqs) : IsSubseq(w, seqs[k])

\* C1: every sequence spelled by a path from start to an End leaf of a
\* Dag returned by xmcs2, or by xmcsk on two or more sequences, is a common
\* subsequence of all the input sequences and has length at least l.
C1_Sound ==
    (Built /\ Len(seqs) >= 2)
        => \A w \in Accepted(dag) : IsCommon(w) /\ Len(w) >= len

\* C2: the sequences accepted by the Dag of dag::xmcsk(l, seqs) include
\* every member of the set returned by set::xmcsk(l, seqs), and each of
\* them has length at least l.
C2_SupersetOfSet ==
    (op = "xmcsk" /\ HasDag)
        => /\ \A oc \in BOOLEAN :
                 LET ref == set_xmcsk(oc, len, seqs)
                 IN  ~ref.panic => ref.set \subseteq Accepted(dag)
           /\ \A w \in Accepted(dag) : Len(w) >= len

\* C3: nodes[start].max_length is at least l when the inputs have a common
\* subsequence of length at least l, and 0 when they have none.
C3_StartMaxLength ==
    (Built /\ Len(seqs) >= 1)
        => IF \E w \in CommonSubseqs(seqs) : Len(w) >= len
           THEN StartNode.max_length >= len
           ELSE StartNode.max_length = 0

McsAtLeast(l) == {w \in MaximalCommonSubseqs(seqs) : Len(w) >= l}

\* C4 as stated: the language of the Dag of xmcs2(l, s1, s2) is exactly the
\* set of maximal common subsequences of s1 and s2 of length at least l.
C4_ExactlyMaximal ==
    (op = "xmcs2" /\ HasDag) => Accepted(dag) = McsAtLeast(len)

\* C4 amended: whenever xmcs2(l, s1, s2) returns, the language of its Dag
\* contains every maximal common subsequence of s1 and s2 of length at
\* least l, and contains only common subsequences of s1 and s2 of length
\* at least l (some of which need not be maximal).
C4_ContainsMaximal ==
    (op = "xmcs2" /\ HasDag)
        => /\ McsAtLeast(len) \subseteq Accepted(dag)
           /\ \A w \in Accepted(dag) : IsCommon(w) /\ Len(w) >= len

\* xmcs2 returned a Dag that accepts a maximal common subsequence and also
\* a common subsequence that is not maximal
C4_Witness ==
    /\ op = "xmcs2" /\ HasDag
    /\ McsAtLeast(len) # {}
    /\ \E w \in Accepted(dag) : w \notin McsAtLeast(len)

Injections(n) == {p \in [1 .. n -> 1 .. n] : \A a, b \in 1 .. n : p[a] = p[b] => a = b}

Reordered(ss, p) == [k \in 1 .. Len(ss) |-> ss[p[k]]]

\* C6 as stated: for every ordering of the same sequences, xmcsk(l, .)
\* returns a Dag that accepts the same set of sequences.
C6_AnyOrder ==
    (op = "xmcsk" /\ HasDag)
        => \A p \in Injections(Len(seqs)), oc \in BOOLEAN :
               LET other == xmcsk(oc, len, Reordered(seqs, p))
               IN  ~other.panic /\ Accepted(other) = Accepted(dag)

\* C6 amended: for two sequences, xmcsk(l, [s1, s2]) and xmcsk(l, [s2, s1])
\* accept the same set of sequences.
C6_TwoSequences ==
    (op = "xmcsk" /\ HasDag /\ Len(seqs) = 2)
        => \A oc \in BOOLEAN :
               LET other == xmcsk(oc, len, <<seqs[2], seqs[1]>>)
               IN  ~other.panic /\ Accepted(other) = Accepted(dag)

\* two different sequences folded, the Dag accepting several sequences
C6_Witness ==
    /\ op = "xmcsk" /\ HasDag /\ Len(seqs) = 2
    /\ seqs[1] # seqs[2]
    /\ Cardinality(Accepted(dag)) >= 2

MinInputLength ==
    CHOOSE n \in {Len(seqs[k]) : k \in 1 .. Len(seqs)} :
        \A k \in 1 .. Len(seqs) : n <= Len(seqs[k])

\* C7: when l is larger than the length of the shortest input sequence,
\* xmcs2 and xmcsk return normally, with an Empty node at index 0 and
\* start = 0.
C7_EmptyWhenTooLong ==
    (op \in {"xmcs2", "xmcsk"} /\ Len(seqs) >= 1 /\ len > MinInputLength)
        => /\ ~dag.panic
           /\ At(dag.nodes, 0).inner.type = "Empty"
           /\ dag.start = 0

\* C8: when the inputs have a common subsequence of length at least
\* max(l, 1), extract_lcs returns Some(w) with w a common subsequence of
\* all the inputs and |w| the length of their longest common subsequence.
C8_ExtractsLongest ==
    (Built /\ lcs.done /\ Len(seqs) >= 1
       /\ \E w \in CommonSubseqs(seqs) : Len(w) >= Max(len, 1))
        => /\ lcs.some
           /\ IsCommon(lcs.val)
           /\ Len(lcs.val) = LcsLength(seqs)

\* C9: on every Dag produced by Dag::empty, Dag::singleton, xmcs2 or xmcsk,
\* extract_lcs returns None exactly when nodes[start].max_length = 0, and
\* otherwise a sequence of length nodes[start].max_length.
C9_ExtractLength ==
    (HasDag /\ lcs.done)
        => /\ ~lcs.some <=> StartNode.max_length = 0
           /\ lcs.some => Len(lcs.val) = StartNode.max_length

\* extract_lcs has run on a Dag folded from three sequences whose start is
\* a Split with children of different max_length
C9_Witness ==
    /\ HasDag /\ lcs.done /\ lcs.some
    /\ op = "xmcsk" /\ Len(seqs) = 3
    /\ StartNode.inner.type = "Split"
    /\ At(dag.nodes, StartNode.inner.child1).max_length
         # At(dag.nodes, StartNode.inner.child2).max_length

AllSame == \A k \in 1 .. Len(seqs) : seqs[k] = seqs[1]

\* C10 as stated: when all the inputs are the same sequence s and
\* l <= |s|, the Dag accepts s and extract_lcs returns Some(s).
C10_Identical ==
    (Built /\ lcs.done /\ Len(seqs) >= 1 /\ AllSame /\ len <= Len(seqs[1]))
        => /\ seqs[1] \in Accepted(dag)
           /\ lcs.some /\ lcs.val = seqs[1]

\* C10 amended: when all the inputs are the same sequence s and l <= |s|,
\* the Dag accepts s; extract_lcs returns Some(s) when s is not empty, and
\* None when s is empty.
C10_IdenticalNonEmpty ==
    (Built /\ lcs.done /\ Len(seqs) >= 1 /\ AllSame /\ len <= Len(seqs[1]))
        => /\ seqs[1] \in Accepted(dag)
           /\ Len(seqs[1]) > 0 => (lcs.some /\ lcs.val = seqs[1])
           /\ Len(seqs[1]) = 0 => ~lcs.some

\* the same non-empty sequence folded three times, then extracted
C10_Witness ==
    /\ Built /\ lcs.done /\ Len(seqs) = 3 /\ AllSame
    /\ Len(seqs[1]) >= 2 /\ len <= Len(seqs[1])
    /\ lcs.some

NonEmptyInputs == Len(seqs) >= 1 /\ \A k \in 1 .. Len(seqs) : Len(seqs[k]) > 0

\* C11: with l = 0 and non-empty input sequences, xmcs2(0, s1, s2) and
\* xmcsk(0, seqs) return, the start node of the Dag is not Empty and at
\* least one path leads from start to an End leaf.
C11_NonEmptyAtZero ==
    (op \in {"xmcs2", "xmcsk"} /\ len = 0 /\ NonEmptyInputs)
        => /\ ~dag.panic
           /\ StartNode.inner.type # "Empty"
           /\ Accepted(dag) # {}

\* three non-empty sequences without a common element folded with l = 0:
\* the Dag accepts the empty sequence only
C11_Witness ==
    /\ op = "xmcsk" /\ HasDag /\ len = 0 /\ Len(seqs) = 3 /\ NonEmptyInputs
    /\ CommonSubseqs(seqs) = {<<>>}
    /\ Accepted(dag) = {<<>>}

\* C12 as stated: xmcsk(l, [s]) returns a Dag that wraps s as a single
\* End(s) leaf at arena index 0, which is the start node.
C12_SingleLeafAtZero ==
    (op = "xmcsk" /\ Len(seqs) = 1)
        => /\ ~dag.panic
           /\ Len(dag.nodes) = 1
           /\ At(dag.nodes, 0).inner = [type |-> "End", suffix |-> seqs[1]]
           /\ dag.start = 0

\* C12 amended: xmcsk(l, [s]) returns a Dag of two nodes, Empty at arena
\* index 0 and the leaf End(s), with both length bounds |s|, at index 1;
\* start is 1 and the Dag accepts s and nothing else.
C12_LeafAtOne ==
    (op = "xmcsk" /\ Len(seqs) = 1)
        => /\ ~dag.panic
           /\ Len(dag.nodes) = 2
           /\ At(dag.nodes, 0).inner.type = "Empty"
           /\ At(dag.nodes, 1).inner = [type |-> "End", suffix |-> seqs[1]]
           /\ At(dag.nodes, 1).max_length = Len(seqs[1])
           /\ At(dag.nodes, 1).min_length = Len(seqs[1])
           /\ dag.start = 1
           /\ Accepted(dag) = {seqs[1]}

\* xmcsk called on one sequence of several elements, with l > 0
C12_Witness ==
    /\ op = "xmcsk" /\ Len(seqs) = 1 /\ HasDag
    /\ Len(seqs[1]) >= 2 /\ len > 0
    /\ StartNode.inner.type = "End"

\* the sequences folded before the last one
Front(ss) == SubSeq(ss, 1, Len(ss) - 1)

Last(ss) == ss[Len(ss)]

\* the root call of Builder::compute that produced dag, run again in a
\* build with (oc) or without overflow checks: what it returned, the arena
\* it left, and whether it panicked
RootRecursion(oc) ==
    IF op = "xmcs2"
    THEN LET raw == build_raw(oc, len, seqs[1], seqs[2])
         IN  [panic |-> raw.panic, ret |-> raw.start, nodes |-> raw.nodes]
    ELSE LET xmcs == xmcsk(oc, len, Front(seqs))
             res0 == [nodes |-> <<>>, memo |-> <<>>, base_graph |-> xmcs.nodes,
                      panic |-> FALSE]
             r    == xk_compute(res0, oc, len, xmcs.start, Last(seqs))
         IN  IF xmcs.panic THEN [panic |-> TRUE, ret |-> None, nodes |-> <<>>]
             ELSE [panic |-> r.self.panic, ret |-> r.ret, nodes |-> r.self.nodes]

\* what the builder call returns in that build
Returned(oc) ==
    IF op = "xmcs2" THEN xmcs2(oc, len, seqs[1], seqs[2]) ELSE xmcsk(oc, len, seqs)

\* C13: in both builders, whenever the root recursion returns None it has
\* emitted no node into the arena, so the emptiness assertion of build /
\* add_sequence holds and the Dag returned has exactly one node, Empty,
\* and start = 0.
C13_NoneLeavesArenaEmpty ==
    (op \in {"xmcs2", "xmcsk"} /\ Len(seqs) >= 2)
        => \A oc \in BOOLEAN :
               LET r == RootRecursion(oc)
               IN  (~r.panic /\ r.ret = None /\ dag = Returned(oc))
                       => /\ Len(r.nodes) = 0
                          /\ ~dag.panic
                          /\ dag.nodes = <<EmptyNode>>
                          /\ dag.start = 0

\* a third sequence folded into a Dag that is not empty, with l no larger
\* than any input, and the root recursion returned None
C13_Witness ==
    /\ op = "xmcsk" /\ Len(seqs) = 3 /\ HasDag
    /\ len >= 1 /\ len <= MinInputLength
    /\ \E w \in CommonSubseqs(Front(seqs)) : Len(w) >= len
    /\ \E oc \in BOOLEAN : ~RootRecursion(oc).panic /\ RootRecursion(oc).ret = None
    /\ StartNode.inner.type = "Empty"

\* C14: SubString::new(s1, s2, delta) panics whenever ||s1| - |s2|| > delta,
\* and is_substring_at(i, j) / is_substring_from_end panic whenever the
\* indices they query have i > |s1|, j > |s2| or |i - j| > delta (or, for
\* from_end, an index below 0): no such call returns a boolean.
C14_FailsOutsidePrecondition ==
    /\ (op = "new" /\ distance(Len(seqs[1]), Len(seqs[2])) > sub.delta)
           => sub.panic
    /\ (op = "query" /\ ~InBand(query.i, query.j)) => query.panic

\* a query of two non-empty tails, both indices in range, outside the
\* band, whose cell index falls inside the table: it panicked
C14_Witness ==
    /\ op = "query"
    /\ 0 <= query.i /\ query.i < sub.d1
    /\ 0 <= query.j /\ query.j < sub.d2
    /\ distance(query.i, query.j) > sub.delta
    /\ index_with(query.i, query.j, sub.delta) \in DOMAIN sub.table
    /\ query.panic

\* Builder::compute of xmcsk.rs followed without its memo table: the set
\* of sequences accepted from the node that the visit of base-graph node
\* `current` with seq returns ({} for None)
RECURSIVE xk_compute_unmemoized(_, _, _, _, _)
xk_compute_unmemoized(base_graph, oc, l, current, seq) ==
    LET node == At(base_graph, current)
        l1   == node.max_length
        l2   == Len(seq)
        t    == node.inner.type
    IN  IF l > l1 \/ l > l2 THEN {}
        ELSE IF t = "Empty" THEN {}
        ELSE IF t = "End"
             THEN LET raw == build_raw(oc, l, node.inner.suffix, seq)
                  IN  IF raw.panic \/ raw.start = None THEN {}
                      ELSE Lang(raw.nodes, raw.start)
        ELSE IF t = "Split"
             THEN xk_compute_unmemoized(base_graph, oc, l, node.inner.child1, seq)
                  \cup xk_compute_unmemoized(base_graph, oc, l, node.inner.child2, seq)
        ELSE IF l2 = 0 /\ l = 0 THEN {seq}
        ELSE IF l2 = 0 THEN {}
        ELSE IF node.inner.value = seq[1]
             THEN {<<node.inner.value>> \o w :
                      w \in xk_compute_unmemoized(base_graph, oc, saturating_sub(l, 1),
                                                  node.inner.child, Tail(seq))}
             ELSE xk_compute_unmemoized(base_graph, oc, l, current, Tail(seq))
                  \cup xk_compute_unmemoized(base_graph, oc, l, node.inner.child, seq)

\* C15: during an add_sequence run on a Dag produced by the builders, every
\* memo hit under a key (len, max_length, |seq|) returns the value stored
\* by a visit to the same node, so the memoized recursion returns the same
\* result as the recursion without the memo table: the Dag accepts what
\* the recursion followed without the memo accepts.
C15_MemoTransparent ==
    (op = "xmcsk" /\ Len(seqs) >= 2 /\ HasDag)
        => \A oc \in BOOLEAN :
               LET xmcs == xmcsk(oc, len, Front(seqs))
               IN  ~xmcs.panic
                       => Accepted(dag)
                            = xk_compute_unmemoized(xmcs.nodes, oc, len,
                                                    xmcs.start, Last(seqs))

\* the arena indices of dag
Indices == 0 .. Len(dag.nodes) - 1

NodeType(i) == At(dag.nodes, i).inner.type

\* the length bounds of node i follow the recurrence of its type
LengthsFollowRecurrence(i) ==
    LET node == At(dag.nodes, i)
        t    == node.inner.type
    IN  IF t = "Empty" THEN node.max_length = 0 /\ node.min_length = 0
        ELSE IF t = "End"
             THEN /\ node.max_length = Len(node.inner.suffix)
                  /\ node.min_length = Len(node.inner.suffix)
        ELSE IF t = "Element"
             THEN /\ node.inner.child \in Indices
                  /\ node.max_length = At(dag.nodes, node.inner.child).max_length + 1
                  /\ node.min_length = At(dag.nodes, node.inner.child).min_length + 1
             ELSE /\ node.inner.child1 \in Indices
                  /\ node.inner.child2 \in Indices
                  /\ node.max_length
                       = Max(At(dag.nodes, node.inner.child1).max_length,
                             At(dag.nodes, node.inner.child2).max_length)
                  /\ node.min_length
                       = Min(At(dag.nodes, node.inner.child1).min_length,
                             At(dag.nodes, node.inner.child2).min_length)

\* C16: in every Dag produced by xmcs2 or by add_sequence folds, each node
\* has min_length <= max_length and its bounds follow the recurrences:
\* Empty 0 and 0; End(s) |s| and |s|; Element(_, c) one more than c's
\* bounds; Split(c1, c2) the max of the children's max_length and the min
\* of their min_length.
C16_LengthBounds ==
    Built => \A i \in Indices :
                 /\ At(dag.nodes, i).min_length <= At(dag.nodes, i).max_length
                 /\ LengthsFollowRecurrence(i)

\* a Dag folded from three sequences holding an Element over a Split whose
\* children have different bounds
C16_Witness ==
    /\ op = "xmcsk" /\ HasDag /\ Len(seqs) = 3
    /\ \E i \in Indices :
           /\ NodeType(i) = "Element"
           /\ NodeType(At(dag.nodes, i).inner.child) = "Split"
           /\ At(dag.nodes, i).min_length < At(dag.nodes, i).max_length

\* the child indices of node i
Children(i) ==
    LET node == At(dag.nodes, i)
    IN  IF node.inner.type = "Element" THEN {node.inner.child}
        ELSE IF node.inner.type = "Split"
             THEN {node.inner.child1, node.inner.child2}
             ELSE {}

\* C17: in every Dag produced by xmcs2 or by add_sequence folds, nodes
\* spliced in from a pairwise sub-build included, every child index of an
\* Element or Split node refers to an existing arena node and is strictly
\* less than the index of its parent; start is a valid arena index.
C17_ChildrenBelowParent ==
    Built => /\ dag.start \in Indices
             /\ \A i \in Indices : \A c \in Children(i) : c \in Indices /\ c < i

\* a Dag folded from three sequences in which a node of a subgraph spliced
\* behind other nodes (its children lie above index 0) has children
C17_Witness ==
    /\ op = "xmcsk" /\ HasDag /\ Len(seqs) = 3
    /\ \E i \in Indices :
           /\ NodeType(i) = "Split"
           /\ \A c \in Children(i) : c > 0 /\ NodeType(c) = "Element"
    /\ \E i \in Indices : NodeType(i) = "Element" /\ i > 2

\* C18: in every Dag produced by Dag::empty, Dag::singleton, xmcs2 or
\* add_sequence folds, at most one Empty node exists, it sits at index 0
\* when present, and no Element or Split node has an Empty node as a child.
C18_OneEmptyAtZero ==
    Built => /\ \A i \in Indices : NodeType(i) = "Empty" => i = 0
             /\ \A i \in Indices : \A c \in Children(i) :
                    c \in Indices /\ NodeType(c) # "Empty"

\* a fold that returned a Dag with a Split and an Element although one of
\* the sequences the Dag before it accepted has no subsequence of length
\* at least l in common with the sequence folded in (that branch of the
\* recursion came back empty)
C18_Witness ==
    /\ op = "xmcsk" /\ HasDag /\ Len(seqs) = 3
    /\ \E oc \in BOOLEAN :
           \E w \in Accepted(xmcsk(oc, len, Front(seqs))) :
               \A v \in Subseqs(w) : IsSubseq(v, Last(seqs)) => Len(v) < len
    /\ \E i \in Indices : NodeType(i) = "Split"
    /\ \E i \in Indices : NodeType(i) = "Element"

\* C19: in the k-ary builder, after an End(suffix) leaf is dispatched to
\* the pairwise builder at position p, the memo table maps p to the shifted
\* root index of the spliced subgraph (or to None when the sub-build was
\* empty), so a later visit to p returns that index and splices no further
\* nodes.  Stated for the fold of a second sequence, whose root visit is
\* the dispatch of the End leaf of Dag::singleton.
C19_EndDispatchMemoized ==
    (op = "xmcsk" /\ Len(seqs) = 2 /\ HasDag
       /\ len <= Len(seqs[1]) /\ len <= Len(seqs[2]))
        => \A oc \in BOOLEAN :
               LET xmcs  == xmcsk(oc, len, Front(seqs))
                   res0  == [nodes |-> <<>>, memo |-> <<>>,
                             base_graph |-> xmcs.nodes, panic |-> FALSE]
                   p     == xk_position(res0, len, xmcs.start, Last(seqs))
                   r     == xk_compute(res0, oc, len, xmcs.start, Last(seqs))
                   again == xk_compute(r.self, oc, len, xmcs.start, Last(seqs))
               IN  ~r.self.panic
                       => /\ p \in DOMAIN r.self.memo
                          /\ r.self.memo[p] = r.ret
                          /\ again.ret = r.ret
                          /\ again.self.nodes = r.self.nodes

\* the sequences accepted from an Option<usize> index
LangFrom(nodes, i) == IF i = None THEN {} ELSE Lang(nodes, i)

\* node i of the arena is a Split one of whose children is c
SplitOver(nodes, i, c) ==
    /\ At(nodes, i).inner.type = "Split"
    /\ c \in {At(nodes, i).inner.child1, At(nodes, i).inner.child2}

\* the cases in which the split-combine rule returns an existing index:
\* exactly one side is Some, both are the same index, or one is a Split
\* that has the other as a child
ReturnsExisting(nodes, i1, i2) ==
    \/ (i1 = None) # (i2 = None)
    \/ i1 # None /\ i1 = i2
    \/ /\ i1 # None /\ i2 # None /\ i1 # i2
       /\ SplitOver(nodes, i1, i2) \/ SplitOver(nodes, i2, i1)

\* the call of compute_split_node made by the root visit of the fold that
\* produced dag, when the start node of the Dag before it is a Split or an
\* Element whose value differs from the head of the sequence folded in:
\* the builder before the call, the two indices, and what the call returned
RootCombine(oc) ==
    LET xmcs == xmcsk(oc, len, Front(seqs))
        seq  == Last(seqs)
        res0 == [nodes |-> <<>>, memo |-> <<>>, base_graph |-> xmcs.nodes,
                 panic |-> FALSE]
        node == At(xmcs.nodes, xmcs.start)
        t    == node.inner.type
        applies ==
            /\ ~xmcs.panic
            /\ len <= node.max_length /\ len <= Len(seq)
            /\ \/ t = "Split"
               \/ t = "Element" /\ Len(seq) > 0 /\ node.inner.value # seq[1]
        r1   == IF t = "Split"
                THEN xk_compute(res0, oc, len, node.inner.child1, seq)
                ELSE xk_compute(res0, oc, len, xmcs.start, Tail(seq))
        r2   == IF t = "Split"
                THEN xk_compute(r1.self, oc, len, node.inner.child2, seq)
                ELSE xk_compute(r1.self, oc, len, node.inner.child, seq)
    IN  IF applies /\ ~r2.self.panic
        THEN [applies |-> TRUE, before |-> r2.self, i1 |-> r1.ret, i2 |-> r2.ret,
              after |-> xk_compute_split_node(r2.self, r1.ret, r2.ret,
                            xk_position(res0, len, xmcs.start, seq))]
        ELSE [applies |-> FALSE]

\* C20: whenever the k-ary split-combine rule returns an existing index
\* instead of emitting a Split (exactly one side is Some, i1 = i2, or node
\* i1 is already a Split having i2 as a child, or symmetrically), the arena
\* is left unchanged and the language accepted from the returned node is
\* the union of the languages accepted from i1 and i2.  Stated of the call
\* the root visit of a fold makes, and of the rule applied to every pair
\* of indices of the arena the fold returned.
C20_CombinePreservesLanguage ==
    (op = "xmcsk" /\ Len(seqs) >= 2 /\ HasDag)
        => /\ \A oc \in BOOLEAN :
                 LET c == RootCombine(oc)
                 IN  (c.applies /\ ReturnsExisting(c.before.nodes, c.i1, c.i2))
                         => /\ ~c.after.self.panic
                            /\ c.after.self.nodes = c.before.nodes
                            /\ c.after.ret # None
                            /\ Lang(c.before.nodes, c.after.ret)
                                 = LangFrom(c.before.nodes, c.i1)
                                     \cup LangFrom(c.before.nodes, c.i2)
           /\ \A i1, i2 \in Indices \cup {None} :
                 LET self == [nodes |-> dag.nodes, memo |-> <<>>,
                              base_graph |-> <<>>, panic |-> FALSE]
                     r    == xk_compute_split_node(self, i1, i2, <<len, 0, 0>>)
                 IN  ReturnsExisting(dag.nodes, i1, i2)
                         => /\ ~r.self.panic
                            /\ r.self.nodes = dag.nodes
                            /\ r.ret # None
                            /\ Lang(dag.nodes, r.ret)
                                 = LangFrom(dag.nodes, i1) \cup LangFrom(dag.nodes, i2)

\* the root visit of a fold of a third sequence combined two different
\* indices of which one is a Split having the other as a child, and the
\* two accept different languages
C20_Witness ==
    /\ op = "xmcsk" /\ Len(seqs) = 3 /\ HasDag
    /\ \E oc \in BOOLEAN :
           LET c == RootCombine(oc)
           IN  /\ c.applies
               /\ c.i1 # None /\ c.i2 # None /\ c.i1 # c.i2
               /\ SplitOver(c.before.nodes, c.i1, c.i2)
                    \/ SplitOver(c.before.nodes, c.i2, c.i1)
               /\ Lang(c.before.nodes, c.i1) # Lang(c.before.nodes, c.i2)
               /\ dag.start = c.after.ret

\* C21: for every xmcs2(l, s1, s2) with l <= min(|s1|, |s2|), and for every
\* pairwise sub-build that add_sequence invokes at an End leaf,
\* max(|s1|, |s2|) - l does not underflow, the construction precondition of
\* the oracle holds, every query of the recursion is inside the band and
\* the index ranges, and the head of an empty tail is never read: the call
\* returns a Dag, in a build with overflow checks and in one without.
C21_NoFailureReachable ==
    /\ (op = "xmcs2" /\ len <= MinInputLength)
           => /\ ~dag.panic
              /\ \A oc \in BOOLEAN : ~build_raw(oc, len, seqs[1], seqs[2]).panic
    /\ (op = "xmcsk" /\ Len(seqs) >= 2)
           => /\ ~dag.panic
              /\ \A oc \in BOOLEAN : ~Returned(oc).panic

\* xmcs2 called with l >= 1 no larger than the shorter sequence, which is
\* at least two shorter than the other, and the recursion went past the
\* first query and branched
C21_Witness ==
    /\ op = "xmcs2" /\ HasDag
    /\ len >= 1 /\ len <= MinInputLength
    /\ distance(Len(seqs[1]), Len(seqs[2])) >= 2
    /\ StartNode.inner.type = "Split"

\* the builder (arena and memo table) that the root call of
\* Builder::compute left behind in the call that produced dag
RootBuilder(oc) ==
    IF op = "xmcs2"
    THEN LET n      == Max(Len(seqs[1]), Len(seqs[2]))
             b0     == [nodes |-> <<>>, memo |-> <<>>, panic |-> FALSE]
             subseq == SubString_compute(seqs[1], seqs[2], n - len)
         IN  IF len > n \/ subseq.panic THEN [b0 EXCEPT !.panic = TRUE]
             ELSE x2_compute(b0, len, seqs[1], seqs[2], subseq).self
    ELSE LET xmcs == xmcsk(oc, len, Front(seqs))
             res0 == [nodes |-> <<>>, memo |-> <<>>, base_graph |-> xmcs.nodes,
                      panic |-> FALSE]
         IN  IF xmcs.panic THEN [res0 EXCEPT !.panic = TRUE]
             ELSE xk_compute(res0, oc, len, xmcs.start, Last(seqs)).self

\* C22: for every Dag returned by xmcs2 or add_sequence whose start node
\* is not Empty, nodes[start].min_length >= l; and whenever the memo table
\* of a builder maps a position (len, _, _) to Some(i),
\* nodes[i].min_length >= len.
C22_MinLengthAtLeastLen ==
    (Built /\ Len(seqs) >= 2)
        => /\ StartNode.inner.type # "Empty" => StartNode.min_length >= len
           /\ \A oc \in BOOLEAN :
                  LET b == RootBuilder(oc)
                  IN  ~b.panic
                          => \A p \in DOMAIN b.memo :
                                 b.memo[p] # None
                                     => At(b.nodes, b.memo[p]).min_length >= p[1]

\* a fold of a third sequence with l >= 2 whose memo table holds Some
\* entries under two different values of len, one of them for a Split
C22_Witness ==
    /\ op = "xmcsk" /\ HasDag /\ Len(seqs) = 3 /\ len >= 2
    /\ StartNode.inner.type # "Empty"
    /\ \E oc \in BOOLEAN :
           LET b == RootBuilder(oc)
           IN  /\ ~b.panic
               /\ \E p, q \in DOMAIN b.memo :
                      /\ p[1] # q[1]
                      /\ b.memo[p] # None /\ b.memo[q] # None
                      /\ At(b.nodes, b.memo[p]).inner.type = "Split"

\* the recursive calls <<len, s1, s2>> that one visit of Builder::compute
\* of xmcs2.rs makes, the memo table set aside
x2_calls(l, s1, s2, substr) ==
    LET l1 == Len(s1)
        l2 == Len(s2)
        q  == is_substring_from_end(substr, l1, l2)
    IN  IF l > l1 \/ l > l2 THEN {}
        ELSE IF q.panic \/ q.val THEN {}
        ELSE IF l1 = 0 \/ l2 = 0 THEN {}
        ELSE IF s1[1] = s2[1]
             THEN {<<saturating_sub(l, 1), Tail(s1), Tail(s2)>>}
             ELSE {<<l, Tail(s1), s2>>, <<l, s1, Tail(s2)>>}

\* the recursive calls <<len, current, seq>> that one visit of
\* Builder::compute of xmcsk.rs makes, the memo table set aside
xk_calls(base_graph, l, current, seq) ==
    LET node == At(base_graph, current)
        l1   == node.max_length
        l2   == Len(seq)
        t    == node.inner.type
    IN  IF l > l1 \/ l > l2 THEN {}
        ELSE IF t = "Empty" \/ t = "End" THEN {}
        ELSE IF t = "Split"
             THEN {<<l, node.inner.child1, seq>>, <<l, node.inner.child2, seq>>}
        ELSE IF l2 = 0 THEN {}
        ELSE IF node.inner.value = seq[1]
             THEN {<<saturating_sub(l, 1), node.inner.child, Tail(seq)>>}
             ELSE {<<l, current, Tail(seq)>>, <<l, node.inner.child, seq>>}

\* the tails s[k..] of s
Tails(s) == {Tail0(s, k) : k \in 0 .. Len(s)}

\* C23: every call of xmcs2, add_sequence and xmcsk terminates: each
\* recursive step of the pairwise builder strictly shortens s1 or s2 (and
\* lengthens neither), and each recursive step of the k-ary builder over a
\* Dag the builders returned either moves to a child of the current node,
\* which lies at a smaller arena index, or stays on the node and strictly
\* shortens seq, so |s1| + |s2|, respectively current + |seq|, decreases at
\* every step and the recursion ends.
C23_RecursionDescends ==
    /\ (op = "xmcs2" /\ len <= Max(Len(seqs[1]), Len(seqs[2])))
           => LET n      == Max(Len(seqs[1]), Len(seqs[2]))
                  substr == SubString_compute(seqs[1], seqs[2], n - len)
              IN  ~substr.panic
                      => \A s1 \in Tails(seqs[1]), s2 \in Tails(seqs[2]), l \in 0 .. len :
                             \A c \in x2_calls(l, s1, s2, substr) :
                                 /\ Len(c[2]) <= Len(s1) /\ Len(c[3]) <= Len(s2)
                                 /\ Len(c[2]) + Len(c[3]) < Len(s1) + Len(s2)
    /\ (Built /\ Len(seqs) >= 2)
           => \A current \in Indices, seq \in Words(MaxLen) :
                  \A c \in xk_calls(dag.nodes, len, current, seq) :
                      /\ c[2] \in Indices
                      /\ Len(c[3]) <= Len(seq)
                      /\ \/ c[2] \in Children(current) /\ c[2] < current
                         \/ c[2] = current /\ Len(c[3]) < Len(seq)

\* a Dag folded from two sequences in which a further fold would visit an
\* Element of a spliced subgraph with a sequence whose head differs from
\* its value: one call stays on the node with a shorter seq, the other
\* moves to its child
C23_Witness ==
    /\ op = "xmcsk" /\ HasDag /\ Len(seqs) = 2 /\ len >= 1
    /\ \E current \in Indices, seq \in Words(MaxLen) :
           /\ NodeType(current) = "Element"
           /\ NodeType(At(dag.nodes, current).inner.child) = "Split"
           /\ Cardinality(xk_calls(dag.nodes, len, current, seq)) = 2

=============================================================================
